---- MODULE Spec2Model ----
(***************************************************************************)
(* State-machine model of get_aqi.py (SDS011 particulate sensor exporter). *)
(*                                                                         *)
(* Concentrations are integers in tenths of ug/m3 (the sensor resolution   *)
(* and the precision round(x, 1) keeps).  A Python dict is a set of        *)
(* <<key, value>> pairs.  A window average sum(d)/len(d) is the exact      *)
(* fraction <<sum, len>>.                                                  *)
(***************************************************************************)
EXTENDS Integers, Sequences, FiniteSets, TLC

(* ------------------------------ bounds --------------------------------- *)
\* largest deque capacity among the configurations explored
MaxCap == 2
\* --measures ranges over 1..MaxMeasures
MaxMeasures == 2
\* the AQI library answers the undefined result or one of the first
\* MaxLevel levels of the country
MaxLevel == 1

\* the startup specification tries every --delay in 1..MaxSmallDelay
MaxSmallDelay == 6

(* ------------------------- program constants --------------------------- *)
Day == 86400
Hour == 3600

\* argparse choices of --country
CountryChoices == {"CN", "EU", "US"}

\* command lines explored: accepted codes, an unknown code, and a code that
\* is a substring of "EU" (what `country in ("EU")` tests)
CountryArgs == CountryChoices \cup {"XX", "E"}

\* --delay values: the EU averaging period divided by MaxCap (a window of
\* MaxCap readings for EU), and the CN/US averaging period (a window of one
\* reading for CN and US; for EU a delay above the averaging period)
DelayArgs == {Hour \div MaxCap, Day}

\* raw (pm25, pm10) pairs sensor.query() can answer, in tenths of ug/m3:
\* two sub-measures of different pairs average to a pm25 half way between
\* two tenths (10.75) and to a pm10 that needs no rounding (20.8)
RawPairs == {<<100, 200>>, <<115, 216>>}

\* the default of --mqtt-base-topic (line 37), as a sequence of characters
DefaultTopic == <<"s", "d", "s", "0", "1", "1">>

(* ------------------------------ helpers -------------------------------- *)
RECURSIVE SumSeq(_)
SumSeq(s) == IF s = <<>> THEN 0 ELSE Head(s) + SumSeq(Tail(s))

\* the last n elements of s (all of s when it is shorter)
LastN(s, n) == IF Len(s) <= n THEN s ELSE SubSeq(s, Len(s) - n + 1, Len(s))

Max(a, b) == IF a >= b THEN a ELSE b
Min(a, b) == IF a <= b THEN a ELSE b

\* dict helpers
HasKey(d, k) == \E p \in d : p[1] = k
Get(d, k) == (CHOOSE p \in d : p[1] = k)[2]

(* --------------------------- pure functions ---------------------------- *)
\* `country in ("EU")` is a substring test on the string "EU"
SubstringsOfEU == {"", "E", "U", "EU"}

get_aqi_interval(country) ==
    IF country \in {"CN", "US"} THEN Day
    ELSE IF country \in SubstringsOfEU THEN Hour
    ELSE -1

\* lines 231-235 with the guard of line 234 written `< 0`
num_measures_of_strict(interval, delay) ==
    LET n == interval \div delay
    IN  IF n < 0 THEN 1 ELSE n

\* lines 231-235: floor division, then "keep one measure instead of zero"
num_measures_of(interval, delay) ==
    LET n == interval \div delay
    IN  IF n <= 0 THEN 1 ELSE n

\* line 82 without the division: round(total, 1)
Round1_undivided(total, measures) == {total}

\* round(total / measures, 1) on tenths: the nearest tenth; an exact tie
\* falls to either neighbour, depending on the binary value of the float
Round1(total, measures) ==
    LET q == total \div measures
        r == total % measures
    IN  IF 2 * r < measures THEN {q}
        ELSE IF 2 * r > measures THEN {q + 1}
        ELSE {q, q + 1}

\* a deque created without maxlen: append never drops anything
deque_append_unbounded(d, v, n) == Append(d, v)

\* deque(maxlen=n).append(v): drops the oldest entry when full (with a
\* maxlen of 0 the deque stays empty)
deque_append(d, v, n) ==
    IF n = 0 THEN d
    ELSE IF Len(d) >= n THEN Tail(d) \o <<v>> ELSE Append(d, v)

\* the level names get_aqi_color knows, per country
Levels(country) ==
    IF country = "CN" THEN <<"excellent", "good", "lightly polluted",
                             "moderately polluted", "heavily polluted",
                             "severely polluted">>
    ELSE IF country = "EU" THEN <<"very low", "low", "medium", "high",
                                  "very high">>
    ELSE IF country = "US" THEN <<"Good", "Moderate",
                                  "Unhealthy for Sensitive Groups",
                                  "Unhealthy", "Very Unhealthy", "Hazardous">>
    ELSE <<>>

\* Python None
None == "None"

get_aqi_color(level_name, country) ==
    IF country = "CN" THEN
        IF level_name = "excellent" THEN "0 255 0"
        ELSE IF level_name = "good" THEN "255 255 0"
        ELSE IF level_name = "lightly polluted" THEN "255 153 0"
        ELSE IF level_name = "moderately polluted" THEN "255 0 0"
        ELSE IF level_name = "heavily polluted" THEN "84 0 153"
        ELSE IF level_name = "severely polluted" THEN "128 0 0"
        ELSE None
    ELSE IF country = "EU" THEN
        IF level_name = "very low" THEN "0 255 0"
        ELSE IF level_name = "low" THEN "163 255 15"
        ELSE IF level_name = "medium" THEN "255 255 0"
        ELSE IF level_name = "high" THEN "255 153 0"
        ELSE IF level_name = "very high" THEN "255 0 0"
        ELSE None
    ELSE IF country = "US" THEN
        IF level_name = "Good" THEN "121 227 71"
        ELSE IF level_name = "Moderate" THEN "251 255 93"
        ELSE IF level_name = "Unhealthy for Sensitive Groups" THEN "226 138 54"
        ELSE IF level_name = "Unhealthy" THEN "234 51 36"
        ELSE IF level_name = "Very Unhealthy" THEN "126 63 185"
        ELSE IF level_name = "Hazardous" THEN "126 63 185"
        ELSE None
    ELSE ""

\* What compute_aqi can return: the defaults of lines 100-104 kept by an
\* unknown country; for a known country the library's answer, which is the
\* undefined result (-1 with an empty level) or an index with a level dict.
\* The index of a defined result is represented by the rank of its level;
\* the levels explored are the first MaxLevel of the country.

AqiUndefined == [aqi |-> -1, level |-> {}]

compute_aqi_results(country) ==
    IF country \notin CountryChoices THEN {AqiUndefined}
    ELSE {AqiUndefined} \cup
         {[aqi |-> n, level |-> {<<"level", Levels(country)[n]>>}] :
             n \in {m \in 1..Len(Levels(country)) : m <= MaxLevel}}

(* ------------------------------- state --------------------------------- *)
VARIABLES
    pc,             \* position of the main thread
    args,           \* parsed command line
    aqi_interval,   \* line 229 (0: not assigned yet)
    num_measures,   \* lines 231-235 (0: not assigned yet)
    maxlen,         \* maxlen of the two deques (0: deques not created yet)
    dequeue_pm25,
    dequeue_pm10,
    http_serving,   \* start_http_server has been called
    sensor_awake,   \* last command the sensor accepted was a wake
    i,              \* queries made so far in get_data's loop
    current_pm25,   \* get_data's accumulator, then the main loop's reading
    current_pm10,
    PM25,           \* gauges
    PM10,
    average_pm25,
    average_pm10,
    aqi,
    aqi_level,
    led_user1,      \* colour last written to each LED channel
    led_user2,
    PM25_HIST,      \* last value each histogram observed
    PM10_HIST,
    log_line,       \* line appended to the log file in the current cycle
    mqtt_sent,      \* messages the broker accepted in the current cycle
    raised,         \* exceptions raised since the current cycle began
    trace,          \* operations performed since the current cycle began
    pushed,         \* the last maxlen + 1 readings appended to the deques
    sensor_script,  \* answers of sensor.query() in a sample, in order
                    \* (empty: any of RawPairs, at each query)
    rpc,            \* position of the metrics responder thread
    sensor_data,    \* the dict collect_all_data builds
    pull_match      \* whether the PM10 gauge holds the reading of the sample
                    \* that set the PM25 value the current pull has read

vars == <<pc, args, aqi_interval, num_measures, maxlen, dequeue_pm25,
          dequeue_pm10, http_serving, sensor_awake, i, current_pm25,
          current_pm10, PM25, PM10, average_pm25, average_pm10, aqi,
          aqi_level, led_user1, led_user2, PM25_HIST, PM10_HIST, log_line,
          mqtt_sent, raised, trace, pushed, sensor_script, rpc, sensor_data,
          pull_match>>

\* variable groups, for UNCHANGED
startupVars == <<aqi_interval, num_measures, maxlen, http_serving>>
dequeVars == <<dequeue_pm25, dequeue_pm10, pushed>>
sampleVars == <<i, current_pm25, current_pm10>>
metricVars == <<PM25, PM10, PM25_HIST, PM10_HIST>>
aqiVars == <<average_pm25, average_pm10, aqi, aqi_level>>
ledVars == <<led_user1, led_user2>>
sinkVars == <<log_line, mqtt_sent>>
envVars == <<sensor_script, rpc, sensor_data>>

(* ------------------------------- Init ---------------------------------- *)
\* The command line: any country argument, a delay and a number of
\* sub-measures, and every combination of the four optional sinks.  Only
\* configurations whose deque capacity is at most MaxCap are explored.
ArgSpace ==
    {a \in [country : CountryArgs, delay : DelayArgs,
            measures : 1..MaxMeasures, log : BOOLEAN,
            mqtt_hostname : BOOLEAN, mqtt_base_topic : {DefaultTopic},
            omnia_leds : BOOLEAN, prometheus : BOOLEAN] :
        num_measures_of(get_aqi_interval(a.country), a.delay) <= MaxCap}

\* the state at position `at` with the level dict among level_dicts and a
\* sensor answering by `script`; every other variable as it is before
\* line 224
InitAt(argset, at, level_dicts, script) ==
    /\ args \in argset
    /\ pc = at
    /\ aqi_interval = 0
    /\ num_measures = 0
    /\ maxlen = 0
    /\ dequeue_pm25 = <<>>
    /\ dequeue_pm10 = <<>>
    /\ http_serving = FALSE
    /\ sensor_awake = FALSE
    /\ i = 0
    /\ current_pm25 = 0
    /\ current_pm10 = 0
    /\ PM25 = 0
    /\ PM10 = 0
    /\ PM25_HIST = 0
    /\ PM10_HIST = 0
    /\ average_pm25 = <<0, 0>>
    /\ average_pm10 = <<0, 0>>
    /\ aqi = -1
    /\ aqi_level \in level_dicts
    /\ led_user1 = ""
    /\ led_user2 = ""
    /\ log_line = <<>>
    /\ mqtt_sent = <<>>
    /\ raised = {}
    /\ trace = <<>>
    /\ pushed = <<>>
    /\ sensor_script = script
    /\ rpc = "idle"
    /\ sensor_data = {}
    /\ pull_match = "same"

\* the state before line 224
InitWith(argset) == InitAt(argset, "parse_args", {{}}, <<>>)

Init == InitWith(ArgSpace)

(* ------------------------------ startup -------------------------------- *)
\* --country declared without choices: any string is accepted
parse_args_accepts_any(country) == TRUE

\* line 31: argparse exits on a --country outside its choices
parse_args_accepts(country) == country \in CountryChoices

ParseArgs ==
    /\ pc = "parse_args"
    /\ pc' = IF parse_args_accepts(args.country) THEN "get_aqi_interval"
             ELSE "exit"
    /\ UNCHANGED <<args, envVars, pull_match,
                   startupVars, dequeVars, sensor_awake, sampleVars,
                   metricVars, aqiVars, ledVars, sinkVars, raised, trace>>

\* line 229
GetAqiInterval ==
    /\ pc = "get_aqi_interval"
    /\ aqi_interval' = get_aqi_interval(args.country)
    /\ pc' = "num_measures"
    /\ UNCHANGED <<args, envVars, pull_match,
                   num_measures, maxlen, http_serving, dequeVars,
                   sensor_awake, sampleVars, metricVars, aqiVars, ledVars,
                   sinkVars, raised, trace>>

\* lines 231-235
NumMeasures ==
    /\ pc = "num_measures"
    /\ num_measures' = num_measures_of(aqi_interval, args.delay)
    /\ pc' = "deque"
    /\ UNCHANGED <<args, envVars, pull_match,
                   aqi_interval, maxlen, http_serving, dequeVars,
                   sensor_awake, sampleVars, metricVars, aqiVars, ledVars,
                   sinkVars, raised, trace>>

\* lines 238-239
CreateDeques ==
    /\ pc = "deque"
    /\ maxlen' = num_measures
    /\ dequeue_pm25' = <<>>
    /\ dequeue_pm10' = <<>>
    /\ pc' = "start_http_server"
    /\ UNCHANGED <<args, envVars, pull_match,
                   aqi_interval, num_measures, http_serving, pushed,
                   sensor_awake, sampleVars, metricVars, aqiVars, ledVars,
                   sinkVars, raised, trace>>

\* lines 241-244 without the test of line 241
StartHttpServerAlways ==
    /\ pc = "start_http_server"
    /\ http_serving' = TRUE
    /\ pc' = "wake"
    /\ UNCHANGED <<args, envVars, pull_match,
                   aqi_interval, num_measures, maxlen, dequeVars,
                   sensor_awake, sampleVars, metricVars, aqiVars, ledVars,
                   sinkVars, raised, trace>>

\* lines 241-244
StartHttpServer ==
    /\ pc = "start_http_server"
    /\ http_serving' = args.prometheus
    /\ pc' = "wake"
    /\ UNCHANGED <<args, envVars, pull_match,
                   aqi_interval, num_measures, maxlen, dequeVars,
                   sensor_awake, sampleVars, metricVars, aqiVars, ledVars,
                   sinkVars, raised, trace>>

(* --------------------------- get_data (64-96) -------------------------- *)
\* An exception that nothing catches ends the process
Crash(what) ==
    /\ pc' = "crashed"
    /\ raised' = raised \cup {what}

\* line 66: sensor.sleep(sleep=False); lines 68-69.  A new cycle begins here.
Wake ==
    /\ pc = "wake"
    /\ \E raises \in BOOLEAN :
          IF raises
          THEN /\ pc' = "crashed"
               /\ raised' = {"sensor"}
               /\ trace' = <<>>
               /\ UNCHANGED <<sensor_awake, sampleVars>>
          ELSE /\ sensor_awake' = TRUE
               /\ current_pm25' = 0
               /\ current_pm10' = 0
               /\ i' = 0
               /\ raised' = {}
               /\ trace' = <<"wake">>
               /\ pc' = "start_delay"
    \* the outputs of the cycle that ended are forgotten, and so are the
    \* main loop's values that lines 255-258 assign before their next use
    /\ log_line' = <<>>
    /\ mqtt_sent' = <<>>
    /\ average_pm25' = <<0, 0>>
    /\ average_pm10' = <<0, 0>>
    /\ aqi' = -1
    /\ aqi_level' = {}
    /\ UNCHANGED <<args, envVars, pull_match,
                   startupVars, dequeVars, metricVars, ledVars>>

\* the loop of line 75 running one turn too many
range_continues_once_more(done, measures) == done <= measures

\* line 75: for _ in range(measures)
range_continues(done, measures) == done < measures

\* line 72: time.sleep(start_delay)
StartDelay ==
    /\ pc = "start_delay"
    /\ trace' = Append(trace, "start_delay")
    /\ pc' = IF range_continues(i, args.measures) THEN "query" ELSE "round"
    /\ UNCHANGED <<args, envVars, pull_match,
                   startupVars, dequeVars, sensor_awake, sampleVars,
                   metricVars, aqiVars, ledVars, sinkVars, raised>>

\* what the n-th sensor.query() of a sample (n from 0) can answer
sensor_query(n) ==
    IF sensor_script = <<>> THEN RawPairs
    ELSE {sensor_script[(n % Len(sensor_script)) + 1]}

\* lines 76-78: x = sensor.query(), summed into the accumulators
Query ==
    /\ pc = "query"
    /\ \/ /\ Crash("sensor")
          /\ UNCHANGED <<sampleVars, trace>>
       \/ \E x \in sensor_query(i) :
             /\ current_pm25' = current_pm25 + x[1]
             /\ current_pm10' = current_pm10 + x[2]
             /\ trace' = Append(trace, "query")
             /\ pc' = "op_delay"
             /\ UNCHANGED <<i, raised>>
    /\ UNCHANGED <<args, envVars, pull_match,
                   startupVars, dequeVars, sensor_awake, metricVars,
                   aqiVars, ledVars, sinkVars>>

\* line 79: time.sleep(operation_delay), then the next turn of the loop
OpDelay ==
    /\ pc = "op_delay"
    /\ i' = i + 1
    /\ trace' = Append(trace, "op_delay")
    /\ pc' = IF range_continues(i + 1, args.measures) THEN "query" ELSE "round"
    /\ UNCHANGED <<args, envVars, pull_match,
                   startupVars, dequeVars, sensor_awake, current_pm25,
                   current_pm10, metricVars, aqiVars, ledVars, sinkVars,
                   raised>>

\* lines 82-83
RoundMeasures ==
    /\ pc = "round"
    /\ current_pm25' \in Round1(current_pm25, args.measures)
    /\ current_pm10' \in Round1(current_pm10, args.measures)
    /\ pc' = "sensor_sleep"
    /\ UNCHANGED <<args, envVars, pull_match,
                   startupVars, dequeVars, sensor_awake, i, metricVars,
                   aqiVars, ledVars, sinkVars, raised, trace>>

\* line 86: sensor.sleep(sleep=True)
SensorSleep ==
    /\ pc = "sensor_sleep"
    /\ \/ /\ Crash("sensor")
          /\ UNCHANGED <<sensor_awake, trace>>
       \/ /\ sensor_awake' = FALSE
          /\ trace' = Append(trace, "sleep")
          /\ pc' = "sleep_delay"
          /\ UNCHANGED raised
    /\ UNCHANGED <<args, envVars, pull_match,
                   startupVars, dequeVars, sampleVars, metricVars,
                   aqiVars, ledVars, sinkVars>>

\* line 87: time.sleep(operation_delay)
SleepDelay ==
    /\ pc = "sleep_delay"
    /\ trace' = Append(trace, "op_delay")
    /\ pc' = "PM25.set"
    /\ UNCHANGED <<args, envVars, pull_match,
                   startupVars, dequeVars, sensor_awake, sampleVars,
                   metricVars, aqiVars, ledVars, sinkVars, raised>>

\* line 90
SetPM25 ==
    /\ pc = "PM25.set"
    /\ PM25' = current_pm25
    /\ trace' = Append(trace, "PM25.set")
    /\ pc' = "PM10.set"
    /\ UNCHANGED <<args, envVars, pull_match,
                   startupVars, dequeVars, sensor_awake, sampleVars,
                   PM10, PM25_HIST, PM10_HIST, aqiVars, ledVars, sinkVars,
                   raised>>

\* What a PM10.set does to a pull that has read PM25 and not yet PM10: the
\* gauge now holds the reading of the sample whose PM25 was read when that
\* sample was between its two sets ("pending"), and a later reading otherwise.
pull_match_after_set(at, match) ==
    IF at # "collect_pm10" THEN match
    ELSE IF match = "pending" THEN "same"
    ELSE "stale"

\* line 91
SetPM10 ==
    /\ pc = "PM10.set"
    /\ PM10' = current_pm10
    /\ pull_match' = pull_match_after_set(rpc, pull_match)
    /\ trace' = Append(trace, "PM10.set")
    /\ pc' = "PM25_HIST.observe"
    /\ UNCHANGED <<args, envVars,
                   startupVars, dequeVars, sensor_awake, sampleVars,
                   PM25, PM25_HIST, PM10_HIST, aqiVars, ledVars, sinkVars,
                   raised>>

\* line 93
ObservePM25 ==
    /\ pc = "PM25_HIST.observe"
    /\ PM25_HIST' = current_pm25
    /\ trace' = Append(trace, "PM25_HIST.observe")
    /\ pc' = "PM10_HIST.observe"
    /\ UNCHANGED <<args, envVars, pull_match,
                   startupVars, dequeVars, sensor_awake, sampleVars,
                   PM25, PM10, PM10_HIST, aqiVars, ledVars, sinkVars, raised>>

\* lines 94-96 with the pm10 reading itself observed
ObservePM10Raw ==
    /\ pc = "PM10_HIST.observe"
    /\ PM10_HIST' = current_pm10
    /\ trace' = Append(trace, "PM10_HIST.observe")
    /\ pc' = "append"
    /\ UNCHANGED <<args, envVars, pull_match,
                   startupVars, dequeVars, sensor_awake, sampleVars,
                   PM25, PM10, PM25_HIST, aqiVars, ledVars, sinkVars, raised>>

\* lines 94-96: the last observation, then get_data returns the reading
ObservePM10 ==
    /\ pc = "PM10_HIST.observe"
    /\ PM10_HIST' = current_pm10 - current_pm25
    /\ trace' = Append(trace, "PM10_HIST.observe")
    /\ pc' = "append"
    /\ UNCHANGED <<args, envVars, pull_match,
                   startupVars, dequeVars, sensor_awake, sampleVars,
                   PM25, PM10, PM25_HIST, aqiVars, ledVars, sinkVars, raised>>

(* -------------------------- main loop (246-293) ------------------------ *)
\* the loop body with save_log moved up, before the averages and the AQI
next_pc_log_first(at) ==
    CASE at = "append" -> "save_log"
      [] at = "save_log" -> "average"
      [] at = "average" -> "compute_aqi"
      [] at = "compute_aqi" -> "leds"
      [] at = "leds" -> "publish_mqtt"
      [] at = "publish_mqtt" -> "delay"
      [] at = "delay" -> "wake"

\* the statement that follows each statement of the loop body
next_pc(at) ==
    CASE at = "append" -> "average"
      [] at = "average" -> "compute_aqi"
      [] at = "compute_aqi" -> "leds"
      [] at = "leds" -> "save_log"
      [] at = "save_log" -> "publish_mqtt"
      [] at = "publish_mqtt" -> "delay"
      [] at = "delay" -> "wake"

\* line 252 without line 253: only the pm25 reading is appended
AppendDequesPm25Only ==
    /\ pc = "append"
    /\ dequeue_pm25' = deque_append(dequeue_pm25, current_pm25, maxlen)
    /\ dequeue_pm10' = dequeue_pm10
    /\ pushed' = LastN(Append(pushed, <<current_pm25, current_pm10>>),
                       maxlen + 1)
    /\ trace' = Append(trace, "append")
    /\ pc' = next_pc(pc)
    /\ UNCHANGED <<args, envVars, pull_match,
                   startupVars, sensor_awake, sampleVars, metricVars,
                   aqiVars, ledVars, sinkVars, raised>>

\* lines 252-253
AppendDeques ==
    /\ pc = "append"
    /\ dequeue_pm25' = deque_append(dequeue_pm25, current_pm25, maxlen)
    /\ dequeue_pm10' = deque_append(dequeue_pm10, current_pm10, maxlen)
    /\ pushed' = LastN(Append(pushed, <<current_pm25, current_pm10>>),
                       maxlen + 1)
    /\ trace' = Append(trace, "append")
    /\ pc' = next_pc(pc)
    /\ UNCHANGED <<args, envVars, pull_match,
                   startupVars, sensor_awake, sampleVars, metricVars,
                   aqiVars, ledVars, sinkVars, raised>>

\* lines 255-256: sum(d) / len(d), a ZeroDivisionError on an empty deque
Average ==
    /\ pc = "average"
    /\ IF Len(dequeue_pm25) = 0 \/ Len(dequeue_pm10) = 0
       THEN /\ Crash("ZeroDivisionError")
            /\ UNCHANGED <<average_pm25, average_pm10, trace>>
       ELSE /\ average_pm25' = <<SumSeq(dequeue_pm25), Len(dequeue_pm25)>>
            /\ average_pm10' = <<SumSeq(dequeue_pm10), Len(dequeue_pm10)>>
            /\ trace' = Append(trace, "average")
            /\ pc' = next_pc(pc)
            /\ UNCHANGED raised
    /\ UNCHANGED <<args, envVars, pull_match,
                   startupVars, dequeVars, sensor_awake, sampleVars,
                   metricVars, aqi, aqi_level, ledVars, sinkVars>>

\* line 258
ComputeAqi ==
    /\ pc = "compute_aqi"
    /\ \E r \in compute_aqi_results(args.country) :
          /\ aqi' = r.aqi
          /\ aqi_level' = r.level
    /\ trace' = Append(trace, "compute_aqi")
    /\ pc' = next_pc(pc)
    /\ UNCHANGED <<args, envVars, pull_match,
                   startupVars, dequeVars, sensor_awake, sampleVars,
                   metricVars, average_pm25, average_pm10, ledVars, sinkVars,
                   raised>>

\* One channel of set_turris_omnia_led (179-185, 187-193): nothing is
\* opened for an empty colour; otherwise the two writes, which raise when
\* the device files fail or when the colour is None (None + "\n").
led_write(old, color, io_fails) ==
    IF color = "" THEN [color |-> old, raises |-> FALSE, wrote |-> FALSE]
    ELSE IF io_fails \/ color = None
         THEN [color |-> old, raises |-> TRUE, wrote |-> FALSE]
         ELSE [color |-> color, raises |-> FALSE, wrote |-> TRUE]

\* lines 261-265
SetLeds ==
    /\ pc = "leds"
    /\ IF ~args.omnia_leds
       THEN /\ pc' = next_pc(pc)
            /\ UNCHANGED <<ledVars, raised, trace>>
       ELSE IF ~HasKey(aqi_level, "level")
       THEN \* line 262: aqi_level["level"] on a level without that key
            /\ Crash("level")
            /\ UNCHANGED <<ledVars, trace>>
       ELSE \E fail \in {"none", "user1", "user2"} :
            LET color_aqi_pm25 == get_aqi_color(Get(aqi_level, "level"),
                                                args.country)
                color_aqi_pm10 == get_aqi_color(Get(aqi_level, "level"),
                                                args.country)
                w1 == led_write(led_user1, color_aqi_pm25, fail = "user1")
                w2 == IF w1.raises
                      THEN [color |-> led_user2, raises |-> FALSE,
                            wrote |-> FALSE]
                      ELSE led_write(led_user2, color_aqi_pm10,
                                     fail = "user2")
            IN  /\ led_user1' = w1.color
                /\ led_user2' = w2.color
                /\ trace' = trace
                            \o (IF w1.wrote THEN <<"led.user1">> ELSE <<>>)
                            \o (IF w2.wrote THEN <<"led.user2">> ELSE <<>>)
                /\ IF w1.raises \/ w2.raises
                   THEN Crash("led")
                   ELSE pc' = next_pc(pc) /\ UNCHANGED raised
    /\ UNCHANGED <<args, envVars, pull_match,
                   startupVars, dequeVars, sensor_awake, sampleVars,
                   metricVars, aqiVars, sinkVars>>

\* save_log without its try/except: the I/O error escapes
save_log_unguarded(old, line, io_fails) ==
    [log |-> IF io_fails THEN old ELSE <<line>>,
     wrote |-> ~io_fails,
     swallowed |-> FALSE,
     escapes |-> io_fails]

\* save_log (195-202): the whole body is inside try/except
save_log(old, line, io_fails) ==
    [log |-> IF io_fails THEN old ELSE <<line>>,
     wrote |-> ~io_fails,
     swallowed |-> io_fails,
     escapes |-> FALSE]

\* lines 268-269
SaveLog ==
    /\ pc = "save_log"
    /\ IF ~args.log
       THEN /\ pc' = next_pc(pc)
            /\ UNCHANGED <<log_line, raised, trace>>
       ELSE \E io_fails \in BOOLEAN :
            LET r == save_log(log_line, <<current_pm25, current_pm10, aqi>>,
                              io_fails)
            IN  /\ log_line' = r.log
                /\ trace' = trace \o <<"save_log">>
                            \o (IF r.wrote THEN <<"log.write">> ELSE <<>>)
                /\ IF r.escapes
                   THEN Crash("log")
                   ELSE /\ pc' = next_pc(pc)
                        /\ raised' = IF r.swallowed THEN raised \cup {"log"}
                                     ELSE raised
    /\ UNCHANGED <<args, envVars, pull_match,
                   startupVars, dequeVars, sensor_awake, sampleVars,
                   metricVars, aqiVars, ledVars, mqtt_sent>>

\* publish_mqtt without its try/except: the publish error escapes
publish_mqtt_unguarded(old, messages, io_fails) ==
    [sent |-> IF io_fails THEN old ELSE old \o messages,
     wrote |-> ~io_fails,
     swallowed |-> FALSE,
     escapes |-> io_fails]

\* publish_mqtt (204-208): publish.multiple inside try/except
publish_mqtt(old, messages, io_fails) ==
    [sent |-> IF io_fails THEN old ELSE old \o messages,
     wrote |-> ~io_fails,
     swallowed |-> io_fails,
     escapes |-> FALSE]

\* str.endswith and str.rstrip for one character, on character sequences
endswith(s, c) == s # <<>> /\ s[Len(s)] = c

RECURSIVE rstrip(_, _)
rstrip(s, c) ==
    IF endswith(s, c) THEN rstrip(SubSeq(s, 1, Len(s) - 1), c) ELSE s

\* lines 274-276 with the prefix used as given
mqtt_topic_as_given(base) == base

\* lines 274-276
mqtt_topic(base) == IF endswith(base, "/") THEN rstrip(base, "/") ELSE base

\* the four suffixes of lines 281-284
TopicAqi == <<"/", "a", "q", "i">>
TopicLevel == <<"/", "l", "e", "v", "e", "l">>
TopicPm25 == <<"/", "c", "u", "r", "r", "e", "n", "t", "_", "p", "m", "2", "5">>
TopicPm10 == <<"/", "c", "u", "r", "r", "e", "n", "t", "_", "p", "m", "1", "0">>

\* lines 281-286 with the payloads of the two readings exchanged
mqtt_messages_swapped(topic, v_aqi, v_level, v_pm25, v_pm10) ==
    << <<topic \o TopicAqi, v_aqi>>, <<topic \o TopicLevel, v_level>>,
       <<topic \o TopicPm25, v_pm10>>, <<topic \o TopicPm10, v_pm25>> >>

\* lines 281-286: the four messages, as (topic, payload)
mqtt_messages(topic, v_aqi, v_level, v_pm25, v_pm10) ==
    << <<topic \o TopicAqi, v_aqi>>, <<topic \o TopicLevel, v_level>>,
       <<topic \o TopicPm25, v_pm25>>, <<topic \o TopicPm10, v_pm10>> >>

\* lines 272-289
PublishMqtt ==
    /\ pc = "publish_mqtt"
    /\ IF ~args.mqtt_hostname
       THEN /\ pc' = next_pc(pc)
            /\ UNCHANGED <<mqtt_sent, raised, trace>>
       ELSE \E io_fails \in BOOLEAN :
            LET r == publish_mqtt(mqtt_sent,
                                  mqtt_messages(
                                      mqtt_topic(args.mqtt_base_topic), aqi,
                                      aqi_level, current_pm25, current_pm10),
                                  io_fails)
            IN  /\ mqtt_sent' = r.sent
                /\ trace' = trace \o <<"publish_mqtt">>
                            \o (IF r.wrote THEN <<"mqtt.sent">> ELSE <<>>)
                /\ IF r.escapes
                   THEN Crash("mqtt")
                   ELSE /\ pc' = next_pc(pc)
                        /\ raised' = IF r.swallowed THEN raised \cup {"mqtt"}
                                     ELSE raised
    /\ UNCHANGED <<args, envVars, pull_match,
                   startupVars, dequeVars, sensor_awake, sampleVars,
                   metricVars, aqiVars, ledVars, log_line>>

\* line 293: time.sleep(args.delay), then back to the top of the loop
Delay ==
    /\ pc = "delay"
    /\ trace' = Append(trace, "delay")
    /\ pc' = next_pc(pc)
    /\ UNCHANGED <<args, envVars, pull_match,
                   startupVars, dequeVars, sensor_awake, sampleVars,
                   metricVars, aqiVars, ledVars, sinkVars, raised>>

(* --------------------------- specification ----------------------------- *)
Next ==
    \/ ParseArgs
    \/ GetAqiInterval
    \/ NumMeasures
    \/ CreateDeques
    \/ StartHttpServer
    \/ Wake
    \/ StartDelay
    \/ Query
    \/ OpDelay
    \/ RoundMeasures
    \/ SensorSleep
    \/ SleepDelay
    \/ SetPM25
    \/ SetPM10
    \/ ObservePM25
    \/ ObservePM10
    \/ AppendDeques
    \/ Average
    \/ ComputeAqi
    \/ SetLeds
    \/ SaveLog
    \/ PublishMqtt
    \/ Delay

Spec == Init /\ [][Next]_vars

\* Startup alone (lines 224-244), over a wider range of --delay values:
\* the small delays, and the delays around each averaging period.
StartupDelays ==
    (1..MaxSmallDelay)
    \cup {Hour - 1, Hour, Hour + 1, 2 * Hour, Day - 1, Day, Day + 1, 2 * Day}

StartupArgSpace ==
    [country : CountryArgs, delay : StartupDelays, measures : {1},
     log : {FALSE}, mqtt_hostname : {FALSE},
     mqtt_base_topic : {DefaultTopic}, omnia_leds : {FALSE},
     prometheus : BOOLEAN]

InitStartup == InitWith(StartupArgSpace)

NextStartup ==
    \/ ParseArgs
    \/ GetAqiInterval
    \/ NumMeasures
    \/ CreateDeques
    \/ StartHttpServer

SpecStartup == InitStartup /\ [][NextStartup]_vars

(* ------------------------- trace observations -------------------------- *)
Has(e) == \E n \in 1..Len(trace) : trace[n] = e
Count(e) == Cardinality({n \in 1..Len(trace) : trace[n] = e})
Before(e, n) == \E m \in 1..(n - 1) : trace[m] = e

MetricOps == {"PM25.set", "PM10.set", "PM25_HIST.observe", "PM10_HIST.observe"}
LedOps == {"led.user1", "led.user2"}
LogOps == {"save_log", "log.write"}
MqttOps == {"publish_mqtt", "mqtt.sent"}
SinkOps == MetricOps \cup LedOps \cup LogOps \cup MqttOps

(* ------------------------------ C1 ------------------------------------- *)
\* C1: when the sensor driver raises during wake, a query or sleep, the
\* process does not crash: the cycle exports to no sink and the loop goes on
\* to sleep(delay) and the next cycle.
C1_SensorFailureSkipsCycle ==
    "sensor" \in raised =>
        /\ pc \in {"delay", "wake"}
        /\ \A n \in 1..Len(trace) : trace[n] \notin SinkOps

(* ------------------------------ C2 ------------------------------------- *)
\* C2: a failing write to an indicator-light channel does not abort the
\* cycle: the log sink and the message-bus sink (when configured) are still
\* attempted in that cycle and the loop goes on to sleep(delay).
C2_LedFailureKeepsCycle ==
    "led" \in raised =>
        /\ pc \in {"save_log", "publish_mqtt", "delay", "wake"}
        /\ (args.log /\ pc # "save_log") => Has("save_log")
        /\ (args.mqtt_hostname /\ pc \in {"delay", "wake"})
               => Has("publish_mqtt")

(* ------------------------------ C3 ------------------------------------- *)
\* C3: when the message-bus publish raises, the failure is swallowed: the
\* metrics update of that cycle is complete (gauges hold the cycle's
\* reading, both histograms observed), the log line of that cycle is
\* appended unless the log write itself failed, and the loop is at
\* sleep(delay) or at the start of the next cycle, able to go on.
C3_MqttFailureSwallowed ==
    "mqtt" \in raised =>
        /\ pc \in {"delay", "wake"}
        /\ ENABLED (Delay \/ Wake)
        /\ Has("publish_mqtt") /\ ~Has("mqtt.sent")
        /\ \A m \in MetricOps : Count(m) = 1
        /\ PM25 = current_pm25 /\ PM10 = current_pm10
        /\ PM25_HIST = current_pm25 /\ PM10_HIST = current_pm10 - current_pm25
        /\ (args.log /\ "log" \notin raised) =>
               /\ Count("log.write") = 1
               /\ log_line = << <<current_pm25, current_pm10, aqi>> >>

\* a cycle with the log configured whose publish failed has gone through
\* sleep(delay) and stands at the start of the next cycle
C3_Witness ==
    /\ "mqtt" \in raised
    /\ pc = "wake"
    /\ trace[Len(trace)] = "delay"
    /\ Has("log.write")

(* ------------------------------ C4 ------------------------------------- *)
\* C4: when opening or writing the log file fails, the failure is swallowed
\* inside the log sink: from the failing step to the end of that cycle no
\* step crashes the process, the message-bus sink (when configured) is
\* attempted next, and no step changes the rolling windows.
C4_LogFailureSwallowed ==
    [][("log" \in raised') =>
          /\ pc' \in {"publish_mqtt", "delay", "wake"}
          /\ UNCHANGED <<dequeue_pm25, dequeue_pm10>>
          /\ (args.mqtt_hostname /\ pc' # "publish_mqtt")
                 => (\E n \in 1..Len(trace') : trace'[n] = "publish_mqtt")]_vars

\* the log write failed, the bus publish of the same cycle went through and
\* the loop stands at the start of the next cycle
C4_Witness ==
    /\ "log" \in raised
    /\ pc = "wake"
    /\ Has("save_log") /\ ~Has("log.write")
    /\ Has("mqtt.sent")
    /\ Len(dequeue_pm25) > 0

(* ------------------------------ C5 ------------------------------------- *)
\* the pm25 (c = 1) or pm10 (c = 2) values of the readings pushed last
PushedValues(c) == [n \in 1..Len(pushed) |-> pushed[n][c]]

\* C5: each rolling window of capacity N (maxlen) never holds more than N
\* values; it holds the most recently pushed values in push order, so a
\* push onto a full window dropped the oldest one; and once more than N
\* values were pushed the computed average is the sum of exactly the N most
\* recent ones divided by N.
C5_RollingWindow ==
    maxlen > 0 =>
        /\ Len(dequeue_pm25) <= maxlen
        /\ Len(dequeue_pm10) <= maxlen
        /\ dequeue_pm25 = LastN(PushedValues(1), maxlen)
        /\ dequeue_pm10 = LastN(PushedValues(2), maxlen)
        /\ (Has("average") /\ Len(pushed) > maxlen) =>
               /\ average_pm25 = <<SumSeq(LastN(PushedValues(1), maxlen)), maxlen>>
               /\ average_pm10 = <<SumSeq(LastN(PushedValues(2), maxlen)), maxlen>>

\* more than N >= 2 readings were pushed, the evicted one differs from the
\* newest, and the averages of the cycle are computed
C5_Witness ==
    /\ maxlen >= 2
    /\ Len(pushed) = maxlen + 1
    /\ pushed[1] # pushed[Len(pushed)]
    /\ Has("average")

(* ------------------------------ C6 ------------------------------------- *)
\* C6: for every accepted country and every delay >= 1 the window capacity
\* computed at startup is max(1, averaging_seconds // delay), with 86400
\* seconds for CN and US and 3600 for EU; it is at least 1, and exactly 1
\* when the delay exceeds the averaging period.
C6_WindowSize ==
    LET averaging_seconds == IF args.country = "EU" THEN 3600 ELSE 86400
    IN  (/\ args.country \in {"CN", "EU", "US"}
         /\ args.delay >= 1
         /\ pc \in {"deque", "start_http_server", "wake"}) =>
            /\ num_measures = Max(1, averaging_seconds \div args.delay)
            /\ num_measures >= 1
            /\ args.delay > averaging_seconds => num_measures = 1
            /\ pc # "deque" => maxlen = num_measures

\* startup is over with a delay above the 24-hour period: capacity 1
C6_Witness ==
    /\ pc = "wake"
    /\ args.country = "US"
    /\ args.delay > 86400
    /\ maxlen = 1

(* ------------------------------ C7 ------------------------------------- *)
\* C7: with a country code outside {CN, EU, US} startup goes no further
\* than the argument parser: no averaging interval and no window size is
\* ever computed, the deques are never created and the main loop never
\* begins.
C7_UnknownCountryRejected ==
    args.country \notin {"CN", "EU", "US"} =>
        /\ pc \in {"parse_args", "exit"}
        /\ aqi_interval = 0
        /\ num_measures = 0
        /\ maxlen = 0
        /\ trace = <<>>
        /\ ~sensor_awake

\* the parser has rejected an unknown country code
C7_Witness ==
    /\ args.country \notin {"CN", "EU", "US"}
    /\ pc = "exit"

(* ------------------------------ C8 ------------------------------------- *)
RECURSIVE Repeat(_, _)
Repeat(s, n) == IF n = 0 THEN <<>> ELSE s \o Repeat(s, n - 1)

\* the sensor protocol of one sample with k sub-measures
SampleProtocol(k) ==
    <<"wake", "start_delay">> \o Repeat(<<"query", "op_delay">>, k)
                              \o <<"sleep", "op_delay">>

SampleOps == {"wake", "start_delay", "query", "op_delay", "sleep"}

\* C8: the operations of a sample are, in this order, wake, the start_delay
\* pause, measures times a query followed by an op_delay pause, the sensor
\* sleep and one op_delay pause: what a cycle has done so far begins with a
\* prefix of that sequence, with the whole of it once get_data is past its
\* last pause, and no sensor operation or pause of the protocol follows it.
C8_SampleProtocol ==
    LET protocol == SampleProtocol(args.measures)
        n == Min(Len(trace), Len(protocol))
    IN  /\ SubSeq(trace, 1, n) = SubSeq(protocol, 1, n)
        /\ \A m \in (n + 1)..Len(trace) : trace[m] \notin SampleOps
        /\ Len(trace) > 0 /\ pc \notin {"start_delay", "query", "op_delay", "round",
                      "sensor_sleep", "sleep_delay", "crashed"}
               => Len(trace) >= Len(protocol)

\* a sample of MaxMeasures >= 2 sub-measures has returned
C8_Witness ==
    /\ pc = "append"
    /\ args.measures >= 2
    /\ Count("query") = args.measures
    /\ Count("sleep") = 1

(* ------------------------------ C9 ------------------------------------- *)
\* C9 as stated: no sink export of a cycle, the metrics update included,
\* happens before the window push and the AQI computation of that cycle.
C9_NoExportBeforeAqi ==
    \A n \in 1..Len(trace) :
        trace[n] \in SinkOps => Before("append", n) /\ Before("compute_aqi", n)

\* the stage of the cycle each operation belongs to
Stage(e) ==
    IF e \in SampleOps THEN 1
    ELSE IF e \in MetricOps THEN 2
    ELSE IF e = "append" THEN 3
    ELSE IF e = "average" THEN 4
    ELSE IF e = "compute_aqi" THEN 5
    ELSE IF e \in LedOps \cup LogOps \cup MqttOps THEN 6
    ELSE 7

\* C9 amended: the operations of a cycle happen in the order sample,
\* metrics update (the last statements of get_data), push of both
\* pollutants, averages, AQI, exports to the indicator lights, the log and
\* the message bus, sleep(delay); no light, log or bus export happens before
\* the push, the averages and the AQI computation of its cycle; the push
\* follows a complete sample; and a new sample starts only at startup or
\* right after sleep(delay).
C9_CycleOrder ==
    /\ \A m, n \in 1..Len(trace) : m < n => Stage(trace[m]) <= Stage(trace[n])
    /\ \A n \in 1..Len(trace) :
          /\ trace[n] \in LedOps \cup LogOps \cup MqttOps =>
                 /\ Before("append", n)
                 /\ Before("average", n)
                 /\ Before("compute_aqi", n)
          /\ trace[n] = "append" => Before("sleep", n)
          /\ trace[n] = "delay" => n = Len(trace) /\ Before("compute_aqi", n)
    /\ \A e \in {"append", "average", "compute_aqi", "delay"} : Count(e) <= 1
    /\ pc = "wake" => trace = <<>> \/ trace[Len(trace)] = "delay"

\* a cycle that exported to the lights, the log and the bus has finished
\* its sleep(delay)
C9_Witness ==
    /\ pc = "wake"
    /\ Has("led.user2") /\ Has("log.write") /\ Has("mqtt.sent")
    /\ trace[Len(trace)] = "delay"

(* ------------------------------ C10 ------------------------------------ *)
\* C10: when the AQI computation yields the undefined result (index -1,
\* empty level) every enabled sink handles it without raising: the process
\* does not crash and the cycle completes its fan-out.
C10_UndefinedAqiHandled ==
    (Has("compute_aqi") /\ aqi = -1 /\ aqi_level = {}) => pc # "crashed"

(* ------------------ C11: colour of an unmapped level ------------------- *)
\* get_aqi_color and set_turris_omnia_led applied to every country argument
\* and every level name: the names get_aqi_color knows for some country, the
\* empty name, and a name it knows for none.
LevelNames ==
    UNION {{Levels(c)[n] : n \in 1..Len(Levels(c))} : c \in CountryChoices}
    \cup {"", "unknown"}

ColorArgSpace ==
    [country : CountryArgs, delay : {Day}, measures : {1}, log : {FALSE},
     mqtt_hostname : {FALSE}, mqtt_base_topic : {DefaultTopic},
     omnia_leds : {TRUE}, prometheus : {FALSE}]

\* at line 261, with the level dict compute_aqi returned
InitColor ==
    InitAt(ColorArgSpace, "leds", {{<<"level", l>>} : l \in LevelNames}, <<>>)

NextColor == SetLeds

SpecColor == InitColor /\ [][NextColor]_vars

\* get_aqi_color has a colour for this level name under this country
Mapped(level_name, country) ==
    \E n \in 1..Len(Levels(country)) : Levels(country)[n] = level_name

\* C11: for every (country, level name) pair without a mapping, an unmapped
\* level name under CN, EU or US included, the colour lookup returns the
\* empty string, and the LED sink then writes nothing to the channel (and
\* the loop goes on to the log).
C11_UnmappedColorEmpty ==
    (HasKey(aqi_level, "level")
        /\ ~Mapped(Get(aqi_level, "level"), args.country)
        /\ args.omnia_leds /\ pc # "leds")
    => /\ get_aqi_color(Get(aqi_level, "level"), args.country) = ""
       /\ pc = "save_log"
       /\ "led" \notin raised
       /\ ~Has("led.user1") /\ ~Has("led.user2")
       /\ led_user1 = "" /\ led_user2 = ""

(* ------------------------------ C12 ------------------------------------ *)
\* C12: for each of the four sinks (metrics, log, message bus, lights), when
\* the sink is not configured or not enabled, no export action of that sink
\* is performed in any cycle, whatever the other sinks are.
C12_DisabledSinkSilent ==
    /\ ~args.prometheus =>
          /\ ~http_serving
          /\ \A n \in 1..Len(trace) : trace[n] \notin MetricOps
    /\ ~args.log =>
          /\ log_line = <<>>
          /\ \A n \in 1..Len(trace) : trace[n] \notin LogOps
    /\ ~args.mqtt_hostname =>
          /\ mqtt_sent = <<>>
          /\ \A n \in 1..Len(trace) : trace[n] \notin MqttOps
    /\ ~args.omnia_leds =>
          /\ led_user1 = "" /\ led_user2 = ""
          /\ \A n \in 1..Len(trace) : trace[n] \notin LedOps

\* C12, amended: a log, message-bus or lights sink that is not configured
\* performs no export action in any cycle, whatever the other sinks are;
\* with the metrics sink not enabled the metrics endpoint is never started,
\* while the gauges and histograms are still updated, once each, by every
\* sample that succeeds.
C12_DisabledSinkSkipped ==
    /\ ~args.prometheus => ~http_serving
    /\ Has("append") => \A m \in MetricOps : Count(m) = 1
    /\ ~args.log =>
          /\ log_line = <<>>
          /\ \A n \in 1..Len(trace) : trace[n] \notin LogOps
    /\ ~args.mqtt_hostname =>
          /\ mqtt_sent = <<>>
          /\ \A n \in 1..Len(trace) : trace[n] \notin MqttOps
    /\ ~args.omnia_leds =>
          /\ led_user1 = "" /\ led_user2 = ""
          /\ \A n \in 1..Len(trace) : trace[n] \notin LedOps

\* a second cycle has ended with the log and the metrics endpoint off and
\* the message bus on
C12_Witness ==
    /\ ~args.log /\ ~args.prometheus /\ ~args.omnia_leds
    /\ args.mqtt_hostname
    /\ pc = "wake"
    /\ Len(pushed) >= 2
    /\ Has("mqtt.sent") /\ Has("PM25.set")

(* ---------------------- C13: the topic prefix -------------------------- *)
\* The program run with the message bus configured, over every
\* --mqtt-base-topic of at most MaxTopicLen characters among TopicChars.
MaxTopicLen == 3
TopicChars == {"a", "/"}
Topics == UNION {[1..n -> TopicChars] : n \in 0..MaxTopicLen}

TopicArgSpace ==
    [country : {"US"}, delay : {Day}, measures : {1}, log : {FALSE},
     mqtt_hostname : {TRUE}, mqtt_base_topic : Topics,
     omnia_leds : {FALSE}, prometheus : {FALSE}]

InitTopic == InitWith(TopicArgSpace)

SpecTopic == InitTopic /\ [][Next]_vars

\* the topics of the messages the broker accepted in this cycle
SentTopics == [n \in 1..Len(mqtt_sent) |-> mqtt_sent[n][1]]

\* C13: for any prefix p that does not end in a slash, the prefix p and the
\* prefix p + "/" give the same four topics: p/aqi, p/level, p/current_pm25
\* and p/current_pm10.
C13_TrailingSlashIgnored ==
    \A p \in Topics :
        (/\ p = <<>> \/ p[Len(p)] # "/"
         /\ args.mqtt_base_topic \in {p, p \o <<"/">>}
         /\ Has("mqtt.sent"))
        => SentTopics = << p \o <<"/", "a", "q", "i">>,
                           p \o <<"/", "l", "e", "v", "e", "l">>,
                           p \o <<"/", "c", "u", "r", "r", "e", "n", "t", "_",
                                  "p", "m", "2", "5">>,
                           p \o <<"/", "c", "u", "r", "r", "e", "n", "t", "_",
                                  "p", "m", "1", "0">> >>

\* four messages were published under a prefix p + "/" with p not empty
C13_Witness ==
    /\ Len(args.mqtt_base_topic) >= 2
    /\ args.mqtt_base_topic[Len(args.mqtt_base_topic)] = "/"
    /\ args.mqtt_base_topic[Len(args.mqtt_base_topic) - 1] # "/"
    /\ Has("mqtt.sent")
    /\ Len(mqtt_sent) = 4

(* ------------------------------ C14 ------------------------------------ *)
\* a cycle has run to the end of sleep(delay)
CycleCompleted ==
    pc = "wake" /\ trace # <<>> /\ trace[Len(trace)] = "delay"

\* the payloads of the messages the broker accepted in this cycle
SentPayloads == [n \in 1..Len(mqtt_sent) |-> mqtt_sent[n][2]]

\* the reading is the cycle's own sample: the one pushed last, and the AQI
\* is the one compute_aqi returned in this cycle, after the averages were
\* taken over the windows as they are now
OwnReadingAndAqi ==
    /\ <<current_pm25, current_pm10>> = pushed[Len(pushed)]
    /\ Count("compute_aqi") = 1
    /\ [aqi |-> aqi, level |-> aqi_level] \in compute_aqi_results(args.country)
    /\ average_pm25 = <<SumSeq(dequeue_pm25), Len(dequeue_pm25)>>
    /\ average_pm10 = <<SumSeq(dequeue_pm10), Len(dequeue_pm10)>>
    /\ \A n \in 1..Len(trace) :
          trace[n] \in {"save_log", "publish_mqtt"}
              => Before("average", n) /\ Before("compute_aqi", n)

\* C14: each completed cycle with the log and the message bus configured
\* appends exactly one log line and issues exactly four bus messages; their
\* pm25 and pm10 are that cycle's own reading and their aqi is the
\* calculator's result for the current window averages.
C14_OneLineFourMessages ==
    (CycleCompleted /\ args.log /\ args.mqtt_hostname) =>
        /\ log_line = << <<current_pm25, current_pm10, aqi>> >>
        /\ Count("log.write") = 1
        /\ SentPayloads = <<aqi, aqi_level, current_pm25, current_pm10>>
        /\ Count("mqtt.sent") = 1
        /\ OwnReadingAndAqi

\* C14, amended: such a cycle calls save_log once and publishes once; the
\* log gets exactly one line unless the append fails, and the bus exactly
\* four messages unless the publish fails, and then none; the values are as
\* in C14.
C14_OneAttemptPerSink ==
    (CycleCompleted /\ args.log /\ args.mqtt_hostname) =>
        /\ Count("save_log") = 1
        /\ Count("publish_mqtt") = 1
        /\ IF "log" \in raised
           THEN log_line = <<>> /\ Count("log.write") = 0
           ELSE /\ log_line = << <<current_pm25, current_pm10, aqi>> >>
                /\ Count("log.write") = 1
        /\ IF "mqtt" \in raised
           THEN mqtt_sent = <<>> /\ Count("mqtt.sent") = 0
           ELSE /\ SentPayloads
                     = <<aqi, aqi_level, current_pm25, current_pm10>>
                /\ Count("mqtt.sent") = 1
        /\ OwnReadingAndAqi

\* a cycle whose reading differs from the one before has ended, with its
\* line appended and its four messages published
C14_Witness ==
    /\ CycleCompleted /\ args.log /\ args.mqtt_hostname
    /\ raised = {}
    /\ Len(pushed) >= 2
    /\ pushed[Len(pushed)] # pushed[Len(pushed) - 1]
    /\ Len(log_line) = 1 /\ Len(mqtt_sent) = 4
    /\ aqi # -1

MaxScenarioCycles == 2

ScenarioScript == << <<100, 200>>, <<120, 220>>, <<110, 210>> >>

ScenarioArgSpace ==
    [country : {"US"}, delay : {10}, measures : {3}, log : BOOLEAN,
     mqtt_hostname : BOOLEAN, mqtt_base_topic : {DefaultTopic},
     omnia_leds : BOOLEAN, prometheus : BOOLEAN]

InitScenario == InitAt(ScenarioArgSpace, "parse_args", {{}}, ScenarioScript)

NextScenario ==
    \/ ParseArgs
    \/ GetAqiInterval
    \/ NumMeasures
    \/ CreateDeques
    \/ StartHttpServer
    \/ Wake
    \/ StartDelay
    \/ Query
    \/ OpDelay
    \/ RoundMeasures
    \/ SensorSleep
    \/ SleepDelay
    \/ SetPM25
    \/ SetPM10
    \/ ObservePM25
    \/ ObservePM10
    \/ (Len(pushed) < MaxScenarioCycles /\ AppendDeques)
    \/ Average
    \/ ComputeAqi
    \/ SetLeds
    \/ SaveLog
    \/ PublishMqtt
    \/ Delay

SpecScenario == InitScenario /\ [][NextScenario]_vars

\* C16: with country US, delay 10 and three sub-samples (10, 20), (12, 22),
\* (11, 21), the sample returns pm25 = 11.0 and pm10 = 21.0, the mean of the
\* raw pairs rounded to one decimal; after the first cycle each window holds
\* exactly that one reading, so the window averages equal the reading.
C16_ScenarioReading ==
    (/\ args.country = "US" /\ args.delay = 10 /\ args.measures = 3
     /\ sensor_script = << <<100, 200>>, <<120, 220>>, <<110, 210>> >>)
    => /\ Has("sleep") => (current_pm25 = 110 /\ current_pm10 = 210)
       /\ Len(pushed) = 1 =>
             /\ dequeue_pm25 = <<110>>
             /\ dequeue_pm10 = <<210>>
             /\ Has("average") =>
                   /\ average_pm25[1] = 110 * average_pm25[2]
                   /\ average_pm10[1] = 210 * average_pm10[2]
                   /\ average_pm25[2] = 1 /\ average_pm10[2] = 1

\* the first cycle of the scenario has computed its averages
C16_Witness ==
    /\ args.country = "US" /\ args.delay = 10 /\ args.measures = 3
    /\ sensor_script = ScenarioScript
    /\ Len(pushed) = 1
    /\ Count("query") = 3
    /\ Has("average")
    /\ average_pm25 = <<110, 1>>

(* ------------------------------ C17 ------------------------------------ *)
\* the exceptions that come from a collaborator: the sensor driver, the LED
\* device files, the log file, the broker
CollaboratorErrors == {"sensor", "led", "log", "mqtt"}

\* C17: once startup has succeeded the scheduler has no exit of its own: in
\* a run where no collaborator raises, the loop never reaches a terminated
\* state (and so every completed cycle is followed by the start of another
\* sample).  Stated on finite runs: the loop is terminated only in a cycle
\* in which a collaborator has raised.
C17_LoopNeverTerminates ==
    pc = "crashed" => raised \cap CollaboratorErrors # {}

(* ------------------------------ C18 ------------------------------------ *)
\* C18: whenever an average is computed its window holds at least one value
\* (the sample of the cycle is pushed first), so the average is never taken
\* over an empty window; while the window is not yet full the average is
\* the mean of the values pushed so far; and the pm25 and pm10 windows
\* always have the same length.
C18_AverageOverNonEmptyWindow ==
    /\ Len(dequeue_pm25) = Len(dequeue_pm10)
    /\ "ZeroDivisionError" \notin raised
    /\ pc = "average" => Len(dequeue_pm25) >= 1
    /\ Has("average") =>
          /\ average_pm25[2] >= 1
          /\ average_pm25[2] = average_pm10[2]
          /\ Len(pushed) <= maxlen =>
                /\ average_pm25 = <<SumSeq(PushedValues(1)), Len(pushed)>>
                /\ average_pm10 = <<SumSeq(PushedValues(2)), Len(pushed)>>

\* an average was computed over a window of capacity two or more that
\* holds one value
C18_Witness ==
    /\ maxlen >= 2
    /\ Len(pushed) = 1
    /\ Has("average")
    /\ average_pm25[2] = 1
    /\ Len(dequeue_pm10) = 1

(* ------------------------------ C19 ------------------------------------ *)
\* the positions inside a sample, between the wake and the sleep command
SamplePcs == {"start_delay", "query", "op_delay", "round", "sensor_sleep"}

\* C19: the sensor's wake and sleep commands alternate strictly, starting
\* with wake; while the scheduler aggregates, exports or sleeps between
\* cycles the sensor's last command was sleep; and the sensor is awake only
\* inside a sample, also in runs where a sensor call fails.
C19_AwakeOnlyInSample ==
    /\ Count("wake") <= 1 /\ Count("sleep") <= Count("wake")
    /\ \A n \in 1..Len(trace) : trace[n] = "sleep" => Before("wake", n)
    /\ sensor_awake <=> (Count("wake") = 1 /\ Count("sleep") = 0)
    /\ sensor_awake => pc \in SamplePcs
    /\ pc \notin SamplePcs => ~sensor_awake

(* ------------------- C20: the metrics responder ------------------------ *)
\* The thread start_http_server starts answers a pull by reading the two
\* gauges one after the other (213, 214) while the main thread runs.
ProcessRunning == pc \notin {"exit", "crashed"}

\* line 213: sensor_data['pm25'] = PM25 ...
CollectPM25 ==
    /\ http_serving /\ ProcessRunning
    /\ rpc = "idle"
    /\ sensor_data' = {<<"pm25", PM25>>}
    /\ pull_match' = IF pc = "PM10.set" THEN "pending" ELSE "same"
    /\ rpc' = "collect_pm10"
    /\ UNCHANGED <<pc, args, sensor_script, startupVars, dequeVars,
                   sensor_awake, sampleVars, metricVars, aqiVars, ledVars,
                   sinkVars, raised, trace>>

\* lines 214-215: sensor_data['pm10'] = PM10 ..., return sensor_data
CollectPM10 ==
    /\ http_serving /\ ProcessRunning
    /\ rpc = "collect_pm10"
    /\ sensor_data' = sensor_data \cup {<<"pm10", PM10>>}
    /\ rpc' = "idle"
    /\ UNCHANGED <<pc, args, sensor_script, pull_match, startupVars,
                   dequeVars, sensor_awake, sampleVars, metricVars, aqiVars,
                   ledVars, sinkVars, raised, trace>>

PullArgSpace ==
    [country : {"US"}, delay : {Day}, measures : {1}, log : {FALSE},
     mqtt_hostname : {FALSE}, mqtt_base_topic : {DefaultTopic},
     omnia_leds : {FALSE}, prometheus : {TRUE}]

InitPull == InitWith(PullArgSpace)

NextPull ==
    \/ Next
    \/ CollectPM25
    \/ CollectPM10

SpecPull == InitPull /\ [][NextPull]_vars

\* C20: a metrics pull served by the responder thread, interleaved at any
\* point with the main loop, observes a PM25 and a PM10 gauge value that
\* were both set by the sample of one same cycle.
C20_PullSeesOneSample ==
    (HasKey(sensor_data, "pm25") /\ HasKey(sensor_data, "pm10"))
        => pull_match = "same"

============================================================================
